---- MODULE Spec2Model ----
(***************************************************************************)
(* A model of the tutor_me textbook pipeline: the page text of             *)
(* utils/ocr_handler.py, the segmenter of 2_structure_data.py              *)
(* (ChunkCreator, structure_textbook), the indexing stage of               *)
(* 3_create_embeddings.py and the query stage of 4_rag_query.py.           *)
(*                                                                         *)
(* Text is a sequence of one-character strings.  The derived fields of a   *)
(* chunk (formulas, dates, historical_figures), which only add lines to    *)
(* the document text of an index entry, are left out of the chunk records, *)
(* and so is the prompt, which only the generation runtime reads.  The     *)
(* subjects are written in Latin letters: "matematika", "istoriya".        *)
(***************************************************************************)
EXTENDS Integers, Sequences, FiniteSets, TLC

VARIABLES
    \* ---- one call of a segmenter function (SpecMath, SpecHist)
    items,            \* what the page text was written from: the numbered
                      \* list (SpecMath), the recognised lines (SpecOcr)
    page_text,        \* the argument page_text
    arg_page_num,     \* the argument page_num
    seg_out,          \* the returned list of chunks
    seg_pc,           \* "input" | "done"; in SpecOcr "ocr" | "page" | "done"
    \* ---- one run of structure_textbook (SpecRun)
    textbook_metadata,\* the TextbookMetadata of the run
    ocr_dir,          \* the page files of ocr_dir: page index -> file content
    page_files,       \* the sorted list of file names still to be read
    chunk_id_counter, \* ChunkCreator.chunk_id_counter
    all_chunks,       \* all_chunks
    structured_dir,   \* the chunk collection documents written so far
    run_pc,           \* "start" | "pages" | "done" | "fault"
    \* ---- the vector index and the query stage (SpecRag)
    db,               \* the collections of the persistent client: name -> entries
    indexed,          \* the chunk documents process_chunks_file has completed for
    last              \* what the last operation did and returned

seg_vars == <<items, page_text, arg_page_num, seg_out, seg_pc>>
run_vars == <<textbook_metadata, ocr_dir, page_files, chunk_id_counter, all_chunks,
              structured_dir, run_pc>>
rag_vars == <<db, indexed, last>>
vars == <<seg_vars, run_vars, rag_vars>>

----------------------------------------------------------------------------
(* Bounds of the model.                                                    *)

MaxItems == 3        \* numbered items on one page (SpecMath)
MaxLen == 7          \* characters of a page text (SpecHist)
MaxLines == 3        \* recognised lines of a page (SpecOcr)

----------------------------------------------------------------------------
(* Text helpers: what the Python string operations used by the code do.    *)

Digit == {"0", "1", "2", "3", "4", "5", "6", "7", "8", "9"}

\* \s of the re module, and what str.strip() removes
Space == {" ", "\n", "\t"}

DigitVal(c) ==
    CASE c = "0" -> 0 [] c = "1" -> 1 [] c = "2" -> 2 [] c = "3" -> 3
      [] c = "4" -> 4 [] c = "5" -> 5 [] c = "6" -> 6 [] c = "7" -> 7
      [] c = "8" -> 8 [] c = "9" -> 9

DigitChar(d) ==
    CASE d = 0 -> "0" [] d = 1 -> "1" [] d = 2 -> "2" [] d = 3 -> "3"
      [] d = 4 -> "4" [] d = 5 -> "5" [] d = 6 -> "6" [] d = 7 -> "7"
      [] d = 8 -> "8" [] d = 9 -> "9"

\* str(n) / f"{n}" of a natural number
RECURSIVE Dec(_)
Dec(n) == IF n < 10 THEN <<DigitChar(n)>>
          ELSE Dec(n \div 10) \o <<DigitChar(n % 10)>>

\* int(s) of a string of decimal digits
RECURSIVE ParseInt(_)
ParseInt(s) == IF Len(s) = 0 THEN 0
               ELSE 10 * ParseInt(SubSeq(s, 1, Len(s) - 1)) + DigitVal(s[Len(s)])

\* s[i:] and s[:i] with 1-based i
From(s, i) == SubSeq(s, i, Len(s))

RECURSIVE LStrip(_)
LStrip(s) == IF Len(s) > 0 /\ s[1] \in Space THEN LStrip(Tail(s)) ELSE s

RECURSIVE RStrip(_)
RStrip(s) == IF Len(s) > 0 /\ s[Len(s)] \in Space
             THEN RStrip(SubSeq(s, 1, Len(s) - 1)) ELSE s

\* str.strip()
Strip(s) == RStrip(LStrip(s))

RECURSIVE Concat(_)
Concat(ss) == IF Len(ss) = 0 THEN <<>> ELSE Head(ss) \o Concat(Tail(ss))

----------------------------------------------------------------------------
(* ChunkCreator.extract_math_tasks                                         *)
(*   task_pattern = r'(\d+)\.\s+(.*?)(?=\n\d+\.|$)', re.findall, re.DOTALL *)

\* first index >= i of t that holds no digit (Len(t)+1 when there is none)
RECURSIVE DigitRunEnd(_, _)
DigitRunEnd(t, i) == IF i <= Len(t) /\ t[i] \in Digit THEN DigitRunEnd(t, i + 1) ELSE i

\* first index >= i of t that holds no whitespace
RECURSIVE SpaceRunEnd(_, _)
SpaceRunEnd(t, i) == IF i <= Len(t) /\ t[i] \in Space THEN SpaceRunEnd(t, i + 1) ELSE i

\* the lookahead (?=\n\d+\.|$) at index e: a newline, digits and a dot follow,
\* or e is the end of the text ($ also matches before a final newline)
Lookahead(t, e) ==
    \/ /\ e + 1 <= Len(t)
       /\ t[e] = "\n"
       /\ t[e + 1] \in Digit
       /\ LET k == DigitRunEnd(t, e + 1) IN k <= Len(t) /\ t[k] = "."
    \/ e = Len(t) + 1
    \/ e = Len(t) /\ t[e] = "\n"

\* the lazy (.*?) under DOTALL: the first index >= p where the lookahead holds
RECURSIVE BodyEnd(_, _)
BodyEnd(t, p) == IF Lookahead(t, p) THEN p ELSE BodyEnd(t, p + 1)

\* (\d+)\.\s+ matches at index i: \d+ and \s+ are greedy, and no shorter run
\* can match since the body can always run to the end of the text
HeadMatches(t, i) ==
    /\ i <= Len(t)
    /\ t[i] \in Digit
    /\ LET k == DigitRunEnd(t, i) IN
         k + 1 <= Len(t) /\ t[k] = "." /\ t[k + 1] \in Space

\* re.findall from index pos on: the (task_num, task_text) groups, in order
RECURSIVE FindAllTasks(_, _)
FindAllTasks(t, pos) ==
    IF pos > Len(t) THEN <<>>
    ELSE IF ~HeadMatches(t, pos) THEN FindAllTasks(t, pos + 1)
    ELSE LET k == DigitRunEnd(t, pos)
             p == SpaceRunEnd(t, k + 1)
             e == BodyEnd(t, p)
         IN <<[task_num |-> SubSeq(t, pos, k - 1), task_text |-> SubSeq(t, p, e - 1)]>>
            \o FindAllTasks(t, e)

\* the temporary id f"math_temp_{page_num}_{task_num}"
MathTempId(page_num, task_num) ==
    <<"math_temp_">> \o Dec(page_num) \o <<"_">> \o task_num

MathChunk(m, page_num) ==
    [chunk_id |-> MathTempId(page_num, m.task_num),
     metadata |-> [page |-> page_num,
                   task_number |-> ParseInt(m.task_num),
                   content_type |-> "task"],
     content  |-> [text |-> Strip(m.task_text)]]

extract_math_tasks(text, page_num) ==
    LET tasks == FindAllTasks(text, 1)
    IN [i \in 1..Len(tasks) |-> MathChunk(tasks[i], page_num)]

----------------------------------------------------------------------------
(* ChunkCreator.extract_history_content                                    *)

\* str.split('\n\n'): cut at each occurrence of the separator, left to right
RECURSIVE SplitBlank(_, _)
SplitBlank(t, cur) ==
    IF Len(t) = 0 THEN <<cur>>
    ELSE IF Len(t) >= 2 /\ t[1] = "\n" /\ t[2] = "\n"
         THEN <<cur>> \o SplitBlank(From(t, 3), <<>>)
         ELSE SplitBlank(Tail(t), Append(cur, t[1]))

RECURSIVE KeepNonEmpty(_)
KeepNonEmpty(ps) ==
    IF Len(ps) = 0 THEN <<>>
    ELSE IF Len(Strip(Head(ps))) > 0
         THEN <<Strip(Head(ps))>> \o KeepNonEmpty(Tail(ps))
         ELSE KeepNonEmpty(Tail(ps))

\* the variant of the comprehension without its condition "if p.strip()"
RECURSIVE StripAll(_)
StripAll(ps) ==
    IF Len(ps) = 0 THEN <<>> ELSE <<Strip(Head(ps))>> \o StripAll(Tail(ps))

ParagraphsUnfiltered(text) == StripAll(SplitBlank(text, <<>>))

\* paragraphs = [p.strip() for p in page_text.split('\n\n') if p.strip()]
Paragraphs(text) == KeepNonEmpty(SplitBlank(text, <<>>))

\* the temporary id f"history_temp_{page_num}_{idx}"
HistoryTempId(page_num, idx) ==
    <<"history_temp_">> \o Dec(page_num) \o <<"_">> \o Dec(idx)

extract_history_content(text, page_num) ==
    LET paragraphs == Paragraphs(text)
    IN [i \in 1..Len(paragraphs) |->
          [chunk_id |-> HistoryTempId(page_num, i - 1),
           metadata |-> [page |-> page_num, content_type |-> "text"],
           content  |-> [text |-> paragraphs[i]]]]

----------------------------------------------------------------------------
(* ChunkCreator.create_chunk_id and structure_textbook                     *)

\* the subject strings compared at lines 126 and 128
Mathematics == "matematika"
History == "istoriya"

\* the id without the running counter (what a creator that never counts gives)
ChunkIdNoCounter(subj, metadata, counter) ==
    <<subj, "_">> \o Dec(metadata.grade) \o <<"_", "c", "h", "0", "_", "p">>
        \o Dec(metadata.page)

\* f"{subject}_{grade}_ch{metadata.get('chapter', 0)}_p{page}_{counter}";
\* no chunk's metadata holds 'chapter', so the default 0 is what is written
ChunkId(subj, metadata, counter) ==
    <<subj, "_">> \o Dec(metadata.grade) \o <<"_", "c", "h", "0", "_", "p">>
        \o Dec(metadata.page) \o <<"_">> \o Dec(counter)

\* chunk['metadata'].update({...}) of lines 135-140
WithBookMetadata(metadata, tm) ==
    LET added == [textbook_title |-> tm.title, grade |-> tm.grade,
                  subject |-> tm.subject, author |-> tm.author]
    IN [k \in DOMAIN metadata \cup DOMAIN added |->
          IF k \in DOMAIN added THEN added[k] ELSE metadata[k]]

\* a creator whose counter starts again on every page
FinalChunksPerPage(chunks, tm, counter) ==
    [i \in 1..Len(chunks) |->
        LET md == WithBookMetadata(chunks[i].metadata, tm)
        IN [chunk_id |-> ChunkId(tm.subject, md, i),
            metadata |-> md,
            content  |-> chunks[i].content]]

\* the loop of lines 134-143 over the chunks of one page: the i-th chunk gets
\* the counter value counter + i
FinalChunks(chunks, tm, counter) ==
    [i \in 1..Len(chunks) |->
        LET md == WithBookMetadata(chunks[i].metadata, tm)
        IN [chunk_id |-> ChunkId(tm.subject, md, counter + i),
            metadata |-> md,
            content  |-> chunks[i].content]]

\* code points of the characters of a page file name
Ord(c) ==
    CASE c = "." -> 46 [] c \in Digit -> 48 + DigitVal(c) [] c = "_" -> 95
      [] c = "a" -> 97 [] c = "e" -> 101 [] c = "g" -> 103 [] c = "j" -> 106
      [] c = "n" -> 110 [] c = "o" -> 111 [] c = "p" -> 112 [] c = "s" -> 115

\* f"{n:03d}"
ZeroPad3(n) ==
    LET d == Dec(n)
    IN IF Len(d) >= 3 THEN d
       ELSE [i \in 1..(3 - Len(d)) |-> "0"] \o d

\* output_dir / f"page_{page_num:03d}.json" of OCRHandler.process_pdf_pages
PageFileName(n) == <<"p", "a", "g", "e", "_">> \o ZeroPad3(n) \o <<".", "j", "s", "o", "n">>

\* a < b for two file names: the order of str (and of Path in one directory)
RECURSIVE StrLess(_, _)
StrLess(a, b) ==
    IF Len(b) = 0 THEN FALSE
    ELSE IF Len(a) = 0 THEN TRUE
    ELSE IF a[1] # b[1] THEN Ord(a[1]) < Ord(b[1])
    ELSE StrLess(Tail(a), Tail(b))

\* sorted(ocr_dir.glob("page_*.json"))
RECURSIVE SortedNames(_)
SortedNames(S) ==
    IF S = {} THEN <<>>
    ELSE LET least == CHOOSE a \in S : \A b \in S \ {a} : StrLess(a, b)
         IN <<least>> \o SortedNames(S \ {least})

\* page_file.stem.split('_')[1] of a name page_<digits>.json, then int()
RECURSIVE AfterUnderscore(_)
AfterUnderscore(name) ==
    IF name[1] = "_" THEN Tail(name) ELSE AfterUnderscore(Tail(name))

PageNumOf(name) ==
    LET stem == SubSeq(name, 1, Len(name) - 5)      \* without ".json"
    IN ParseInt(AfterUnderscore(stem))

\* f"{subject}_{grade}_chunks.json"
OutputName(tm) == <<tm.subject, "_">> \o Dec(tm.grade) \o <<"_chunks.json">>

----------------------------------------------------------------------------
(* The states in which a part of the pipeline is not running.              *)

NoFunction == [x \in {} |-> 0]

SegIdle ==
    /\ items = <<>>
    /\ page_text = <<>>
    /\ arg_page_num = 0
    /\ seg_out = <<>>
    /\ seg_pc = "idle"

RunIdle ==
    /\ textbook_metadata = [title |-> "", author |-> "", grade |-> 0, subject |-> ""]
    /\ ocr_dir = NoFunction
    /\ page_files = <<>>
    /\ chunk_id_counter = 0
    /\ all_chunks = <<>>
    /\ structured_dir = NoFunction
    /\ run_pc = "idle"

RagIdle ==
    /\ db = NoFunction
    /\ indexed = {}
    /\ last = [op |-> "none"]

----------------------------------------------------------------------------
(* SpecMath: one call of extract_math_tasks on the text of a numbered list. *)

ItemNums == {1, 2, 12}
ItemBodies == {<<"a">>, <<"b", "+", "2", ".">>, <<>>}
ItemSeps == {"\n", " "}
PageNums == {3, 12}

\* an item "<num>. <body>" and what separates it from the next item
Item == [num : ItemNums, body : ItemBodies, sep : ItemSeps]

ItemLists == UNION {[1..n -> Item] : n \in 1..MaxItems}

RenderItem(it, isLast) ==
    Dec(it.num) \o <<".", " ">> \o it.body \o (IF isLast THEN <<>> ELSE <<it.sep>>)

Render(its) == Concat([i \in 1..Len(its) |-> RenderItem(its[i], i = Len(its))])

InitMath ==
    /\ items \in ItemLists
    /\ page_text = Render(items)
    /\ arg_page_num \in PageNums
    /\ seg_out = <<>>
    /\ seg_pc = "input"
    /\ RunIdle
    /\ RagIdle

MathCall ==
    /\ seg_pc = "input"
    /\ seg_out' = extract_math_tasks(page_text, arg_page_num)
    /\ seg_pc' = "done"
    /\ UNCHANGED <<items, page_text, arg_page_num, run_vars, rag_vars>>

NextMath == MathCall

SpecMath == InitMath /\ [][NextMath]_vars

----------------------------------------------------------------------------
(* SpecHist: one call of extract_history_content on any short text.        *)

HistAlphabet == {"a", "b", " ", "\n"}

HistTexts == UNION {[1..n -> HistAlphabet] : n \in 0..MaxLen}

InitHist ==
    /\ items = <<>>
    /\ page_text \in HistTexts
    /\ arg_page_num \in PageNums
    /\ seg_out = <<>>
    /\ seg_pc = "input"
    /\ RunIdle
    /\ RagIdle

HistCall ==
    /\ seg_pc = "input"
    /\ seg_out' = extract_history_content(page_text, arg_page_num)
    /\ seg_pc' = "done"
    /\ UNCHANGED <<items, page_text, arg_page_num, run_vars, rag_vars>>

NextHist == HistCall

SpecHist == InitHist /\ [][NextHist]_vars

----------------------------------------------------------------------------
(* Claims about the segmenter functions.                                   *)

\* a numbered list is well formed when every item has a body and the numbers
\* go up
WellFormedList(its) ==
    /\ \A i \in 1..Len(its) : Len(Strip(its[i].body)) > 0
    /\ \A i \in 1..(Len(its) - 1) : its[i].num < its[i + 1].num

\* C2: for every well-formed numbered list, whether the items are separated
\* by a newline or by a space, extract_math_tasks returns one chunk per item,
\* in page order, with the item's number as task_number and the item's own
\* trimmed body as content.text.
C2_OneChunkPerItem ==
    (seg_pc = "done" /\ Len(items) > 0 /\ WellFormedList(items)) =>
        /\ Len(seg_out) = Len(items)
        /\ \A i \in 1..Len(items) :
             /\ seg_out[i].metadata.task_number = items[i].num
             /\ seg_out[i].content.text = Strip(items[i].body)

HasBlankLine(run) ==
    \E k \in 1..(Len(run) - 1) : run[k] = "\n" /\ run[k + 1] = "\n"

\* the paragraphs of a text, read off its whitespace runs: a run separates two
\* paragraphs when it holds a blank-line boundary (two newlines in a row) or
\* touches an end of the text; any other run belongs to its paragraph
RECURSIVE BlankLineParagraphs(_, _, _)
BlankLineParagraphs(t, i, cur) ==
    LET flush == IF Len(cur) > 0 THEN <<cur>> ELSE <<>>
    IN IF i > Len(t) THEN flush
       ELSE IF t[i] \in Space
            THEN LET j == SpaceRunEnd(t, i)
                     run == SubSeq(t, i, j - 1)
                 IN IF HasBlankLine(run) \/ i = 1 \/ j = Len(t) + 1
                    THEN flush \o BlankLineParagraphs(t, j, <<>>)
                    ELSE BlankLineParagraphs(t, j, cur \o run)
            ELSE BlankLineParagraphs(t, i + 1, Append(cur, t[i]))

\* C3: extract_history_content returns exactly one chunk per paragraph that
\* is not empty or whitespace-only, in paragraph order, tagged 'text', its
\* content.text the trimmed paragraph; empty paragraphs give no chunk.
C3_OneChunkPerParagraph ==
    seg_pc = "done" =>
        LET expected == BlankLineParagraphs(page_text, 1, <<>>)
        IN /\ Len(seg_out) = Len(expected)
           /\ \A i \in 1..Len(expected) :
                /\ seg_out[i].content.text = expected[i]
                /\ seg_out[i].metadata.content_type = "text"
                /\ seg_out[i].metadata.page = arg_page_num

\* two paragraphs were returned from a text that also holds an empty or
\* whitespace-only paragraph between blank lines
C3_Witness ==
    LET parts == SplitBlank(page_text, <<>>)
    IN /\ seg_pc = "done"
       /\ Len(seg_out) = 2
       /\ Len(parts) = 3
       /\ Len(parts[2]) > 0
       /\ Len(Strip(parts[2])) = 0

----------------------------------------------------------------------------
(* SpecRun: one run of structure_textbook over the page files of ocr_dir.  *)

PageIndices == {7, 999, 1000}

\* page texts: a numbered list, a numbered list whose last item has no body,
\* two paragraphs, and a page with no text
RunTexts ==
    { <<"1", ".", " ", "a", "\n", "2", ".", " ", "b">>,
      <<"1", ".", " ", "a", "\n", "2", ".", " ">>,
      <<"a", "\n", "\n", "b">>,
      <<>> }

\* what json.load and page_data['text'] make of a page file: the text, or a
\* fault (the file is no JSON, or the object has no 'text')
PageData ==
    [ok : {TRUE}, text : RunTexts]
        \cup [ok : {FALSE}, fault : {"JSONDecodeError", "KeyError"}]

Books ==
    { [title |-> "Matematika 5", author |-> "Tkacheva", grade |-> 5, subject |-> Mathematics],
      [title |-> "Istoriya 6", author |-> "Ivanov", grade |-> 6, subject |-> History],
      [title |-> "Fizika 7", author |-> "Petrov", grade |-> 7, subject |-> "fizika"] }

OcrDirs ==
    UNION {[{PageFileName(n) : n \in S} -> PageData] : S \in SUBSET PageIndices}

\* the document an earlier run of structure_textbook wrote for the book, from
\* one page file page_003.json
EarlierDoc(tm) ==
    LET chunks == IF tm.subject = Mathematics
                  THEN extract_math_tasks(<<"1", ".", " ", "c">>, 3)
                  ELSE IF tm.subject = History
                       THEN extract_history_content(<<"c">>, 3)
                       ELSE <<>>
        final == FinalChunks(chunks, tm, 0)
    IN [metadata |-> tm, chunks |-> final, total_chunks |-> Len(final)]

\* output_dir before the run: empty, or holding the earlier document
OutputDirs(tm) ==
    {NoFunction, [name \in {OutputName(tm)} |-> EarlierDoc(tm)]}

InitRun ==
    /\ textbook_metadata \in Books
    /\ ocr_dir \in OcrDirs
    /\ page_files = <<>>
    /\ chunk_id_counter = 0
    /\ all_chunks = <<>>
    /\ structured_dir \in OutputDirs(textbook_metadata)
    /\ run_pc = "start"
    /\ SegIdle
    /\ RagIdle

\* lines 112-116: the creator, the empty list and the sorted page files
RunStart ==
    /\ run_pc = "start"
    /\ chunk_id_counter' = 0
    /\ all_chunks' = <<>>
    /\ page_files' = SortedNames(DOMAIN ocr_dir)
    /\ run_pc' = "pages"
    /\ UNCHANGED <<textbook_metadata, ocr_dir, structured_dir, seg_vars, rag_vars>>

\* a loop that passes over a page file it cannot read and goes on
PassOverFault(files) == [run_pc |-> "pages", page_files |-> Tail(files)]

\* json.load (line 120) or page_data['text'] (line 123) raises and nothing in
\* structure_textbook catches: the loop and the function are left
PropagateFault(files) == [run_pc |-> "fault", page_files |-> files]

\* lines 119-123 raise: the fault leaves structure_textbook
RunPageFault ==
    /\ run_pc = "pages"
    /\ Len(page_files) > 0
    /\ ~ocr_dir[Head(page_files)].ok
    /\ run_pc' = PropagateFault(page_files).run_pc
    /\ page_files' = PropagateFault(page_files).page_files
    /\ UNCHANGED <<textbook_metadata, ocr_dir, chunk_id_counter,
                   all_chunks, structured_dir, seg_vars, rag_vars>>

\* lines 130-131: a subject with no segmenter, the page is passed over
RunPageSkip ==
    /\ run_pc = "pages"
    /\ Len(page_files) > 0
    /\ ocr_dir[Head(page_files)].ok
    /\ textbook_metadata.subject \notin {Mathematics, History}
    /\ page_files' = Tail(page_files)
    /\ UNCHANGED <<textbook_metadata, ocr_dir, chunk_id_counter, all_chunks,
                   structured_dir, run_pc, seg_vars, rag_vars>>

\* lines 118-145 for a page of mathematics or history
RunPageChunks ==
    /\ run_pc = "pages"
    /\ Len(page_files) > 0
    /\ ocr_dir[Head(page_files)].ok
    /\ textbook_metadata.subject \in {Mathematics, History}
    /\ LET page_file == Head(page_files)
           n == PageNumOf(page_file)
           text == ocr_dir[page_file].text
           chunks == IF textbook_metadata.subject = Mathematics
                     THEN extract_math_tasks(text, n)
                     ELSE extract_history_content(text, n)
           final == FinalChunks(chunks, textbook_metadata, chunk_id_counter)
       IN /\ chunk_id_counter' = chunk_id_counter + Len(chunks)
          /\ all_chunks' = all_chunks \o final
    /\ page_files' = Tail(page_files)
    /\ UNCHANGED <<textbook_metadata, ocr_dir, structured_dir, run_pc,
                   seg_vars, rag_vars>>

\* lines 147-158: the chunk collection document is written
RunWrite ==
    /\ run_pc = "pages"
    /\ Len(page_files) = 0
    /\ LET name == OutputName(textbook_metadata)
           doc == [metadata |-> textbook_metadata,
                   chunks |-> all_chunks,
                   total_chunks |-> Len(all_chunks)]
       IN structured_dir' =
            [k \in DOMAIN structured_dir \cup {name} |->
                IF k = name THEN doc ELSE structured_dir[k]]
    /\ run_pc' = "done"
    /\ UNCHANGED <<textbook_metadata, ocr_dir, page_files, chunk_id_counter,
                   all_chunks, seg_vars, rag_vars>>

NextRun == RunStart \/ RunPageFault \/ RunPageSkip \/ RunPageChunks \/ RunWrite

SpecRun == InitRun /\ [][NextRun]_vars

----------------------------------------------------------------------------
(* Claims about a run of structure_textbook.                               *)

WrittenChunks == {structured_dir[name].chunks : name \in DOMAIN structured_dir}

\* C1: in a written chunk collection, the chunk_id of every chunk differs
\* from the chunk_id of every other chunk, across pages and within a page.
C1_UniqueChunkIds ==
    \A cs \in WrittenChunks :
        \A i, j \in 1..Len(cs) : i # j => cs[i].chunk_id # cs[j].chunk_id

\* a written collection holds two chunks of one page and a chunk of another
C1_Witness ==
    \E cs \in WrittenChunks :
        \E i, j, k \in 1..Len(cs) :
            /\ i # j
            /\ cs[i].metadata.page = cs[j].metadata.page
            /\ cs[k].metadata.page # cs[i].metadata.page

\* C7: every chunk of a written chunk collection has a non-empty
\* content.text, for the mathematics and for the history variant.
C7_NoEmptyText ==
    \A cs \in WrittenChunks :
        \A i \in 1..Len(cs) : Len(cs[i].content.text) > 0

\* the running counter value at the end of a final chunk id
RECURSIVE LastField(_)
LastField(id) ==
    IF \E i \in 1..Len(id) : id[i] = "_"
    THEN LastField(Tail(id))
    ELSE id

CounterOf(chunk) == ParseInt(LastField(chunk.chunk_id))

\* C8: in a written chunk collection, a chunk of a numerically lower page has
\* a smaller running-counter value than any chunk of a higher page, for page
\* files named page_<zero-padded index>.json with any page index.
C8_PageOrder ==
    \A cs \in WrittenChunks :
        \A i, j \in 1..Len(cs) :
            cs[i].metadata.page < cs[j].metadata.page
                => CounterOf(cs[i]) < CounterOf(cs[j])

\* the components of a chunk id, which "_" separates
RECURSIVE Fields(_, _)
Fields(id, cur) ==
    IF Len(id) = 0 THEN <<cur>>
    ELSE IF Head(id) = "_" THEN <<cur>> \o Fields(Tail(id), <<>>)
    ELSE Fields(Tail(id), Append(cur, Head(id)))

\* the page component p<page> of a final chunk id
PageOf(chunk) == ParseInt(Tail(Fields(chunk.chunk_id, <<>>)[4]))

\* C12: in every written chunk collection the k-th chunk of the chunks list
\* has the running counter k at the end of its chunk_id and its own
\* metadata.page as the page component, and total_chunks is the length of the
\* list; the run's chunk_id_counter counts the chunks collected so far, so it
\* ends equal to total_chunks, and it stays 0 for an unsupported subject.
C12_CounterIsPosition ==
    /\ \A name \in DOMAIN structured_dir :
          LET doc == structured_dir[name]
          IN /\ doc.total_chunks = Len(doc.chunks)
             /\ \A k \in 1..Len(doc.chunks) :
                   /\ CounterOf(doc.chunks[k]) = k
                   /\ PageOf(doc.chunks[k]) = doc.chunks[k].metadata.page
    /\ chunk_id_counter = Len(all_chunks)
    /\ run_pc = "done" =>
          structured_dir[OutputName(textbook_metadata)].total_chunks = chunk_id_counter
    /\ textbook_metadata.subject \notin {Mathematics, History} => chunk_id_counter = 0

\* a run wrote a collection of three or more chunks that come from two pages
\* or more
C12_Witness ==
    /\ run_pc = "done"
    /\ LET cs == structured_dir[OutputName(textbook_metadata)].chunks
       IN /\ Len(cs) >= 3
          /\ Len(cs) = chunk_id_counter
          /\ \E i, j \in 1..Len(cs) : cs[i].metadata.page # cs[j].metadata.page

\* some page file of ocr_dir is not JSON or holds no 'text'
Malformed == \E name \in DOMAIN ocr_dir : ~ocr_dir[name].ok

\* C11: if a page-result file is malformed, structure_textbook ends with the
\* fault and never with a written document: while the run goes on and after
\* it has failed, output_dir stays as it was before the run (nothing is
\* written, an earlier document for the same subject and grade is kept), and
\* the page loop is left only by the fault.
C11_FaultWritesNothing ==
    [][Malformed =>
          /\ structured_dir' = structured_dir
          /\ run_pc' # "done"
          /\ (run_pc = "pages" /\ run_pc' # "pages") => run_pc' = "fault"]_vars

\* the run failed at a malformed page after chunks of an earlier page were
\* collected, and output_dir still holds the earlier document
C11_Witness ==
    /\ run_pc = "fault"
    /\ Len(all_chunks) > 0
    /\ OutputName(textbook_metadata) \in DOMAIN structured_dir
    /\ structured_dir[OutputName(textbook_metadata)] = EarlierDoc(textbook_metadata)

----------------------------------------------------------------------------
(* utils/ocr_handler.py: OCRHandler.extract_text_only, process_pdf_pages.  *)

\* sep.join(lines)
RECURSIVE Join(_, _)
Join(sep, lines) ==
    IF Len(lines) = 0 THEN <<>>
    ELSE IF Len(lines) = 1 THEN Head(lines)
    ELSE Head(lines) \o sep \o Join(sep, Tail(lines))

\* lines joined with an empty line between them
JoinBlankLines(results) == Join(<<"\n", "\n">>, results)

\* '\n'.join([item['text'] for item in results])
extract_text_only(results) == Join(<<"\n">>, results)

\* json.dump of a str (ensure_ascii=False): quoted, with its escapes
JsonEscape(c) ==
    CASE c = "\n" -> <<"\\", "n">>
      [] c = "\t" -> <<"\\", "t">>
      [] c = "\"" -> <<"\\", "\"">>
      [] c = "\\" -> <<"\\", "\\">>
      [] OTHER -> <<c>>

JsonDumpText(t) ==
    <<"\"">> \o Concat([i \in 1..Len(t) |-> JsonEscape(t[i])]) \o <<"\"">>

\* json.load of a quoted string: the characters between the quotes, unescaped
RECURSIVE JsonUnescape(_)
JsonUnescape(j) ==
    IF Len(j) = 0 THEN <<>>
    ELSE IF Head(j) = "\\"
         THEN <<CASE j[2] = "n" -> "\n" [] j[2] = "t" -> "\t" [] OTHER -> j[2]>>
                 \o JsonUnescape(From(j, 3))
         ELSE <<Head(j)>> \o JsonUnescape(Tail(j))

JsonLoadText(j) == JsonUnescape(SubSeq(j, 2, Len(j) - 1))

----------------------------------------------------------------------------
(* SpecOcr: one page goes through OCR and then through the history         *)
(* segmenter of structure_textbook.                                        *)

\* texts of recognised lines: empty, a word, a blank, words with a blank, a
\* tab, and lines that hold a newline
OcrLines ==
    { <<>>, <<"a">>, <<" ">>, <<"a", " ", "b">>, <<"\t">>,
      <<"a", "\n", "b">>, <<"\n">> }

OcrResults == UNION {[1..n -> OcrLines] : n \in 0..MaxLines}

InitOcr ==
    /\ items \in OcrResults
    /\ page_text = <<>>
    /\ arg_page_num \in PageNums
    /\ seg_out = <<>>
    /\ seg_pc = "ocr"
    /\ RunIdle
    /\ RagIdle

\* process_pdf_pages for the page: the text of the results is written to
\* page_<page_num:03d>.json; ocr_dir holds what json.load reads back
OcrPage ==
    /\ seg_pc = "ocr"
    /\ ocr_dir' = [name \in {PageFileName(arg_page_num)} |->
                     [ok |-> TRUE,
                      text |-> JsonLoadText(JsonDumpText(extract_text_only(items)))]]
    /\ seg_pc' = "page"
    /\ UNCHANGED <<items, page_text, arg_page_num, seg_out, textbook_metadata,
                   page_files, chunk_id_counter, all_chunks, structured_dir,
                   run_pc, rag_vars>>

\* structure_textbook, lines 118-129, for the page file of a history book
OcrHistoryPage ==
    /\ seg_pc = "page"
    /\ \E page_file \in DOMAIN ocr_dir :
          /\ page_text' = ocr_dir[page_file].text
          /\ seg_out' = extract_history_content(ocr_dir[page_file].text,
                                                PageNumOf(page_file))
    /\ seg_pc' = "done"
    /\ UNCHANGED <<items, arg_page_num, run_vars, rag_vars>>

NextOcr == OcrPage \/ OcrHistoryPage

SpecOcr == InitOcr /\ [][NextOcr]_vars

\* no recognised line is the empty string or holds a newline
CleanLines ==
    \A i \in 1..Len(items) :
        Len(items[i]) > 0 /\ \A k \in 1..Len(items[i]) : items[i][k] # "\n"

Newlines(t) == Cardinality({k \in 1..Len(t) : t[k] = "\n"})

\* C14: when no recognised line is empty or holds a newline, the text of the
\* page file is the lines joined by single newlines (one newline between two
\* lines, no blank-line boundary), and the history segmenter returns at most
\* one chunk for the page: none when the text has no non-whitespace
\* character, one otherwise, whatever the number of lines.
C14_OcrPageOneChunk ==
    (seg_pc \in {"page", "done"} /\ CleanLines) =>
        LET text == ocr_dir[PageFileName(arg_page_num)].text
        IN /\ ~HasBlankLine(text)
           /\ Len(items) > 0 => Newlines(text) = Len(items) - 1
           /\ seg_pc = "done" =>
                 /\ Len(seg_out) <= 1
                 /\ Len(seg_out) = 0 <=> (\A k \in 1..Len(text) : text[k] \in Space)
                 /\ \A i \in 1..Len(seg_out) : seg_out[i].metadata.page = arg_page_num

\* a page of three recognised lines, the middle one a blank, gave one chunk
C14_Witness ==
    /\ seg_pc = "done"
    /\ CleanLines
    /\ Len(items) = 3
    /\ items[2] = <<" ">>
    /\ Len(seg_out) = 1
    /\ Newlines(seg_out[1].content.text) = 2

----------------------------------------------------------------------------
(* 3_create_embeddings.py: EmbeddingManager and process_chunks_file.       *)
(* The vector index is the persistent client of the index library: a       *)
(* collection is the list of its entries, and the client holds at most one *)
(* collection of a name.                                                   *)

CHROMA_COLLECTION_PREFIX == "textbook"
OLLAMA_MODEL == "qwen3:8b"
TextBudget == 500        \* content['text'][:500]
BatchSize == 100         \* batch_size
NResultsDefault == 3     \* n_results: int = 3

Min(a, b) == IF a < b THEN a ELSE b

\* f"{Config.CHROMA_COLLECTION_PREFIX}_{subject}_{grade}"
CollectionName(subj, grade) ==
    <<CHROMA_COLLECTION_PREFIX, "_", subj, "_">> \o Dec(grade)

\* create_text_for_embedding: the chunks of the pipeline hold neither 'topic'
\* nor 'chapter'; the parts are joined by newlines
create_text_for_embedding(chunk) ==
    <<"Subject: ", chunk.metadata.subject, "\n", "Grade: ">>
        \o Dec(chunk.metadata.grade)
        \o <<"\n", "Page: ">> \o Dec(chunk.metadata.page)
        \o <<"\n", "Content: ">>
        \o SubSeq(chunk.content.text, 1, Min(Len(chunk.content.text), TextBudget))

\* client.get_collection(name): "ok", or the exception it raises; fault says
\* whether the index fails for a reason of its own during the call
get_collection(d, name, fault) ==
    IF fault THEN "IndexFault"
    ELSE IF name \notin DOMAIN d THEN "NotFound"
    ELSE "ok"

\* client.create_collection(name): raises when the name is taken
create_collection(d, name, fault) ==
    IF fault THEN "IndexFault"
    ELSE IF name \in DOMAIN d THEN "AlreadyExists"
    ELSE "ok"

WithCollection(d, name, entries) ==
    [k \in DOMAIN d \cup {name} |-> IF k = name THEN entries ELSE d[k]]

\* a store that never looks the collection up and always creates it
AlwaysCreate(d, name, fault) ==
    IF create_collection(d, name, fault) = "ok"
    THEN [outcome |-> "ok", db |-> WithCollection(d, name, <<>>), created |-> TRUE]
    ELSE [outcome |-> "raised", db |-> d, created |-> FALSE]

\* lines 82-90: get the collection, and on any exception create it
GetOrCreate(d, name, fault) ==
    IF get_collection(d, name, fault) = "ok"
    THEN [outcome |-> "ok", db |-> d, created |-> FALSE]
    ELSE IF create_collection(d, name, fault) = "ok"
         THEN [outcome |-> "ok", db |-> WithCollection(d, name, <<>>), created |-> TRUE]
         ELSE [outcome |-> "raised", db |-> d, created |-> FALSE]

\* collection.add of one batch: an id the collection already holds is passed
\* over (the index keeps the entry it has), any other record is appended
RECURSIVE collection_add(_, _)
collection_add(entries, batch) ==
    IF Len(batch) = 0 THEN entries
    ELSE IF \E i \in 1..Len(entries) : entries[i].id = Head(batch).id
         THEN collection_add(entries, Tail(batch))
         ELSE collection_add(Append(entries, Head(batch)), Tail(batch))

\* the loop of lines 99-110: the records are added batch_size at a time
RECURSIVE AddInBatches(_, _, _)
AddInBatches(entries, records, i) ==
    IF i >= Len(records) THEN entries
    ELSE AddInBatches(
            collection_add(entries, SubSeq(records, i + 1, Min(i + BatchSize, Len(records)))),
            records, i + BatchSize)

\* lines 93-95: ids, documents and metadatas of the chunks
RecordsOf(chunks) ==
    [i \in 1..Len(chunks) |->
        [id |-> chunks[i].chunk_id,
         document |-> create_text_for_embedding(chunks[i]),
         metadata |-> chunks[i].metadata]]

\* store_in_chromadb(chunks, embeddings, collection_name)
store_in_chromadb(d, chunks, name, fault) ==
    LET got == GetOrCreate(d, name, fault)
    IN IF got.outcome # "ok" THEN got
       ELSE [outcome |-> "ok",
             db |-> WithCollection(got.db, name,
                       AddInBatches(got.db[name], RecordsOf(chunks), 0)),
             created |-> got.created]

\* process_chunks_file: the collection name comes from the document's metadata
process_chunks_file(d, doc, fault) ==
    store_in_chromadb(d, doc.chunks,
                      CollectionName(doc.metadata.subject, doc.metadata.grade), fault)

----------------------------------------------------------------------------
(* 4_rag_query.py: RAGSystem.                                              *)

\* distances the index reports (a cosine distance lies between 0 and 2)
Distances == {0, 2}

\* the message of the ValueError raised at line 34
NotFoundMessage(name) == <<"collection not found, run 3_create_embeddings.py: ">> \o name

\* what collection.query may return for a collection with these entries:
\* min(n_results, count) different entries, nearest first
Retrievals(entries, n) ==
    LET m == Min(n, Len(entries))
        picks == {f \in [1..m -> 1..Len(entries)] :
                     \A a, b \in 1..m : a # b => f[a] # f[b]}
        dists == {g \in [1..m -> Distances] :
                     \A a \in 1..(m - 1) : g[a] <= g[a + 1]}
    IN {[k \in 1..m |-> [id |-> entries[f[k]].id,
                          document |-> entries[f[k]].document,
                          metadata |-> entries[f[k]].metadata,
                          distance |-> g[k]]] : f \in picks, g \in dists}

\* search_relevant_chunks up to the query: the bare except of line 33 turns
\* every exception of get_collection into the ValueError of line 34
search_relevant_chunks(d, subj, grade, index_fault, query_fault, ranking) ==
    LET name == CollectionName(subj, grade)
    IN IF get_collection(d, name, index_fault) # "ok"
       THEN [outcome |-> "raised",
             exc |-> [type |-> "ValueError", msg |-> NotFoundMessage(name)]]
       ELSE IF query_fault # "none"
            THEN [outcome |-> "raised",
                  exc |-> [type |-> query_fault, msg |-> <<"index query failed">>]]
            ELSE [outcome |-> "returned", chunks |-> ranking]

\* metadata.get(key, default)
Get(metadata, key, default) ==
    IF key \in DOMAIN metadata THEN metadata[key] ELSE default

\* a source whose relevance is the distance itself
SourceOfDistance(chunk) ==
    [textbook |-> Get(chunk.metadata, "textbook_title", "Unknown"),
     page |-> Get(chunk.metadata, "page", "?"),
     relevance |-> chunk.distance]

\* lines 141-145: one source per retrieved chunk
SourceOf(chunk) ==
    [textbook |-> Get(chunk.metadata, "textbook_title", "Unknown"),
     page |-> Get(chunk.metadata, "page", "?"),
     relevance |-> 1 - chunk.distance]

\* faults of the generation runtime: the client's errors, and a response
\* without the key 'response'; all are subclasses of Exception
GenerationFaults == {"ResponseError", "ConnectionError", "KeyError"}

\* a handler that names one exception class only
CaughtIfResponseError(fault) == fault = "ResponseError"

\* line 133: except Exception
CaughtByExceptException(fault) == fault \in GenerationFaults

\* line 134: f"generation error: {str(e)}"
Placeholder(fault) == <<"generation error: ", fault>>

\* answer_question: retrieval, generation (lines 125-134), the result (137-156)
answer_question(d, query, subj, grade, index_fault, query_fault, ranking, gen) ==
    LET found == search_relevant_chunks(d, subj, grade, index_fault, query_fault, ranking)
    IN IF found.outcome = "raised" THEN found
       ELSE IF gen \in GenerationFaults /\ ~CaughtByExceptException(gen)
            THEN [outcome |-> "raised", exc |-> [type |-> gen, msg |-> <<gen>>]]
            ELSE [outcome |-> "returned",
                  chunks |-> found.chunks,
                  result |->
                    [query |-> query,
                     answer |-> IF gen \in GenerationFaults
                                THEN Placeholder(gen) ELSE <<"generated: ", gen>>,
                     sources |-> [i \in 1..Len(found.chunks) |-> SourceOf(found.chunks[i])],
                     metadata |-> [subject |-> subj, grade |-> grade,
                                   model |-> OLLAMA_MODEL,
                                   chunks_used |-> Len(found.chunks)]]]

\* one question of interactive_mode (lines 187-209): what is reported
interactive_report(res) ==
    IF res.outcome = "returned" THEN [kind |-> "answer", text |-> res.result.answer]
    ELSE IF res.exc.type = "ValueError" THEN [kind |-> "error", text |-> res.exc.msg]
    ELSE [kind |-> "unexpected", text |-> res.exc.msg]

\* test_query (lines 216-235): no handler, an exception leaves the program
test_query_report(res) ==
    IF res.outcome = "returned" THEN [kind |-> "answer", text |-> res.result.answer]
    ELSE [kind |-> "unhandled", text |-> res.exc.msg]

----------------------------------------------------------------------------
(* SpecRag: indexing runs and questions, in any order.                     *)

\* chunk collection documents as structure_textbook writes them
DocOf(book, text, page, counter) ==
    LET chunks == IF book.subject = Mathematics
                  THEN extract_math_tasks(text, page)
                  ELSE extract_history_content(text, page)
    IN [metadata |-> book, chunks |-> FinalChunks(chunks, book, counter),
        total_chunks |-> Len(chunks)]

MathBook == CHOOSE b \in Books : b.subject = Mathematics
HistoryBook == CHOOSE b \in Books : b.subject = History

\* a chunk collection document of another origin: its one chunk holds the
\* fields indexing reads (subject, grade, page) and no textbook_title
ForeignDoc ==
    [metadata |-> MathBook,
     chunks |-> <<[chunk_id |-> <<"x", "_", "1">>,
                   metadata |-> [page |-> 9, grade |-> MathBook.grade,
                                 subject |-> MathBook.subject],
                   content |-> [text |-> <<"c">>]]>>,
     total_chunks |-> 1]

IndexDocs ==
    { DocOf(MathBook, <<"1", ".", " ", "a", "\n", "2", ".", " ", "b">>, 7, 0),
      ForeignDoc,
      DocOf(HistoryBook, <<"a", "\n", "\n", "b">>, 7, 0) }

Asked == {[subject |-> b.subject, grade |-> b.grade] : b \in Books}
Queries == {"q"}
QueryFaults == {"none", "RuntimeError", "ValueError"}
GenerationOutcomes == {"ok"} \cup GenerationFaults

InitRag ==
    /\ db = NoFunction
    /\ indexed = {}
    /\ last = [op |-> "none"]
    /\ SegIdle
    /\ RunIdle

\* process_chunks_file(chunks_file, embedding_manager)
IndexFile ==
    \E doc \in IndexDocs, fault \in BOOLEAN :
        LET r == process_chunks_file(db, doc, fault)
        IN /\ db' = r.db
           /\ indexed' = IF r.outcome = "ok" THEN indexed \cup {doc} ELSE indexed
           /\ last' = [op |-> "index", doc |-> doc, index_fault |-> fault,
                       again |-> doc \in indexed,
                       outcome |-> r.outcome, created |-> r.created]
           /\ UNCHANGED <<seg_vars, run_vars>>

\* the retrievals the index may answer with; none is asked for unless the
\* collection was resolved
RankingsFor(a, index_fault, query_fault) ==
    LET name == CollectionName(a.subject, a.grade)
    IN IF get_collection(db, name, index_fault) = "ok" /\ query_fault = "none"
       THEN Retrievals(db[name], NResultsDefault)
       ELSE {<<>>}

Ask(mode) ==
    \E a \in Asked, q \in Queries, index_fault \in BOOLEAN,
       query_fault \in QueryFaults, gen \in GenerationOutcomes :
        \E ranking \in RankingsFor(a, index_fault, query_fault) :
            LET res == answer_question(db, q, a.subject, a.grade, index_fault,
                                       query_fault, ranking, gen)
            IN /\ last' = [op |-> "answer", mode |-> mode, asked |-> a,
                           missing |-> CollectionName(a.subject, a.grade) \notin DOMAIN db,
                           index_fault |-> index_fault, query_fault |-> query_fault,
                           gen |-> gen, res |-> res,
                           report |-> IF mode = "interactive"
                                      THEN interactive_report(res)
                                      ELSE test_query_report(res)]
               /\ UNCHANGED <<db, indexed, seg_vars, run_vars>>

\* one question of interactive_mode
InteractiveQuestion == Ask("interactive")

\* test_query(subject, grade, query), the single-shot command line
TestQuery == Ask("single-shot")

NextRag == IndexFile \/ InteractiveQuestion \/ TestQuery

SpecRag == InitRag /\ [][NextRag]_vars

----------------------------------------------------------------------------
(* Claims about the indexing and the query stage.                          *)

Answered == last.op = "answer"

\* the chunks were retrieved: the collection was resolved and queried
RetrievalSucceeded ==
    Answered /\ ~last.missing /\ ~last.index_fault /\ last.query_fault = "none"

\* C4: if the generation runtime faults after retrieval succeeded,
\* answer_question returns a result whose answer is the non-empty placeholder
\* holding the failure detail and whose sources are as many as the chunks
\* retrieved; the fault does not reach the caller.
C4_DegradedAnswer ==
    (RetrievalSucceeded /\ last.gen \in GenerationFaults) =>
        /\ last.res.outcome = "returned"
        /\ Len(last.res.result.answer) > 0
        /\ last.res.result.answer[Len(last.res.result.answer)] = last.gen
        /\ Len(last.res.result.sources) = Len(last.res.chunks)

\* a generation fault was absorbed in an answer citing two or more chunks
C4_Witness ==
    /\ RetrievalSucceeded
    /\ last.gen \in GenerationFaults
    /\ last.res.outcome = "returned"
    /\ Len(last.res.chunks) >= 2

RaisedNotFound ==
    /\ Answered
    /\ last.res.outcome = "raised"
    /\ last.res.exc = [type |-> "ValueError",
                       msg |-> NotFoundMessage(CollectionName(last.asked.subject,
                                                              last.asked.grade))]

\* C5: a question for a (subject, grade) with no collection raises NotFound,
\* and NotFound is raised only when the collection does not exist: another
\* fault of the index while the collection is resolved is not reported as
\* NotFound.
C5_NotFoundIffMissing ==
    Answered =>
        /\ last.missing => RaisedNotFound
        /\ RaisedNotFound => last.missing

\* C6: the sources of a returned answer mirror the retrieved chunks one to
\* one, in order: the chunk's textbook title (or Unknown), its page (or '?'),
\* relevance = 1 - distance; chunks_used is the number of retrieved chunks.
C6_SourcesMirrorChunks ==
    (Answered /\ last.res.outcome = "returned") =>
        LET cs == last.res.chunks
            r == last.res.result
        IN /\ Len(r.sources) = Len(cs)
           /\ r.metadata.chunks_used = Len(cs)
           /\ \A i \in 1..Len(cs) :
                /\ r.sources[i].textbook =
                      IF "textbook_title" \in DOMAIN cs[i].metadata
                      THEN cs[i].metadata.textbook_title ELSE "Unknown"
                /\ r.sources[i].page =
                      IF "page" \in DOMAIN cs[i].metadata
                      THEN cs[i].metadata.page ELSE "?"
                /\ r.sources[i].relevance + cs[i].distance = 1

\* an answer came back citing a chunk with a title and a chunk without one,
\* at different distances
C6_Witness ==
    /\ Answered
    /\ last.res.outcome = "returned"
    /\ \E i, j \in 1..Len(last.res.chunks) :
          /\ "textbook_title" \in DOMAIN last.res.chunks[i].metadata
          /\ "textbook_title" \notin DOMAIN last.res.chunks[j].metadata
          /\ last.res.chunks[i].distance # last.res.chunks[j].distance

\* C9: in the interactive and in the single-shot mode, a missing collection
\* is reported to the user as the 'run indexing first' error, apart from the
\* unexpected-fault report, and in neither mode does it end unhandled.
C9_MissingCollectionReported ==
    (Answered /\ last.missing) =>
        last.report = [kind |-> "error",
                       text |-> NotFoundMessage(CollectionName(last.asked.subject,
                                                               last.asked.grade))]

\* C10: indexing the same chunk document a second time does not raise, does
\* not create a collection, and leaves the collection with exactly one entry
\* per chunk_id of the document.
C10_IndexingIdempotent ==
    (last.op = "index" /\ last.again /\ ~last.index_fault) =>
        LET name == CollectionName(last.doc.metadata.subject, last.doc.metadata.grade)
        IN /\ last.outcome = "ok"
           /\ ~last.created
           /\ name \in DOMAIN db
           /\ \A c \in 1..Len(last.doc.chunks) :
                Cardinality({e \in 1..Len(db[name]) :
                                db[name][e].id = last.doc.chunks[c].chunk_id}) = 1

\* a document of two chunks was indexed a second time
C10_Witness ==
    /\ last.op = "index"
    /\ last.again
    /\ ~last.index_fault
    /\ last.outcome = "ok"
    /\ Len(last.doc.chunks) >= 2

\* the (subject, grade) pairs process_chunks_file has completed for
IndexedPairs ==
    {[subject |-> doc.metadata.subject, grade |-> doc.metadata.grade] : doc \in indexed}

\* C13: once process_chunks_file has completed for a chunk document of a
\* (subject, grade), every later search_relevant_chunks call for that
\* (subject, grade) finds the collection and does not raise NotFound; a call
\* for a (subject, grade) that was never indexed always raises NotFound.
C13_SameCollectionName ==
    Answered =>
        /\ last.asked \in IndexedPairs => (~last.missing /\ ~RaisedNotFound)
        /\ last.asked \notin IndexedPairs => RaisedNotFound

----------------------------------------------------------------------------
(* The stages together: each behaviour is a behaviour of one of them.      *)

Init == InitMath \/ InitHist \/ InitRun \/ InitRag \/ InitOcr

Next == NextMath \/ NextHist \/ NextRun \/ NextRag \/ NextOcr

Spec == Init /\ [][Next]_vars

====
